---- MODULE Spec2Model ----
(***************************************************************************)
(* The Thread view of the chat UI (src/unnamed/part_000) as a state        *)
(* machine: the composer, the lifted LLM-visualization form, the tools     *)
(* panel, the two effects (stream error, first token) and the handlers     *)
(* that hand message lists to the external stream.                         *)
(*                                                                         *)
(* Encoding of JavaScript values:                                          *)
(*   - a value of type `T | undefined` (or `T | null`) is a sequence of    *)
(*     length at most one: Undefined == << >>, Some(v) == <<v>>;           *)
(*   - a text (input, controlText, message content) is a sequence of       *)
(*     strings, each whitespace character an element of its own, so that   *)
(*     trim() is computed;                                                 *)
(*   - a message id is a sequence of tokens, so that startsWith() is       *)
(*     computed; uuidv4() is the first name of a pool that the message     *)
(*     list does not use yet.                                              *)
(***************************************************************************)
EXTENDS Naturals, Sequences, FiniteSets

VARIABLES
    input,                \* Thread: useState("")
    firstTokenReceived,   \* Thread: useState(false)
    llmVizModel,          \* Thread: lifted state of the visualization tool
    llmVizLayer,
    llmVizHead,
    llmVizControlText,
    selectedToolId,       \* Thread: useState<string | null>(null)
    threadId,             \* query parameter "threadId"
    messages,             \* stream.messages
    isLoading,            \* stream.isLoading
    error,                \* stream.error
    lastError,            \* Thread: useRef lastError
    prevMessageLength,    \* Thread: useRef prevMessageLength
    rendered,             \* the transcript the last render produced
    submitted,            \* the arguments of stream.submit in the last step, if it was called
    toast,                \* the notification raised in the last step
    lastOp                \* the handler or event of the last step

vars == << input, firstTokenReceived, llmVizModel, llmVizLayer, llmVizHead,
           llmVizControlText, selectedToolId, threadId, messages, isLoading,
           error, lastError, prevMessageLength, rendered, submitted, toast, lastOp >>

----
\* Bounds of the model.

\* Longest message list the message-flow specification lets the stream hold.
MaxMsgs == 6

\* Longest message list of the form specification (Spec).
MaxFormMsgs == 3

\* Longest message list the transcript specification draws.
MaxRenderLen == 3

----
\* JavaScript values.

Undefined == << >>

Some(v) == <<v>>

Range(s) == { s[i] : i \in 1..Len(s) }

IsWhitespace(c) == c \in {" ", "\t", "\n"}

RECURSIVE TrimStart(_)
TrimStart(s) ==
    IF s = << >> THEN s
    ELSE IF IsWhitespace(s[1]) THEN TrimStart(Tail(s)) ELSE s

RECURSIVE TrimEnd(_)
TrimEnd(s) ==
    IF s = << >> THEN s
    ELSE IF IsWhitespace(s[Len(s)]) THEN TrimEnd(SubSeq(s, 1, Len(s) - 1)) ELSE s

\* String.prototype.trim
Trim(s) == TrimEnd(TrimStart(s))

\* !s for a string s
EmptyString(s) == s = << >>

\* !o for o : string | undefined, the strings being names ("gpt2", "1", "")
Falsy(o) == o = Undefined \/ o = Some("")

\* String.prototype.startsWith
StartsWith(s, p) == Len(s) >= Len(p) /\ SubSeq(s, 1, Len(p)) = p

\* String.prototype.includes
Includes(s, p) ==
    \E i \in 1..(Len(s) + 1) : i + Len(p) - 1 <= Len(s) /\ SubSeq(s, i, i + Len(p) - 1) = p

----
\* Messages.

\* uuidv4(): a name that the ids in use do not contain.
UuidNames == << "u1", "u2", "u3", "u4", "u5", "u6", "u7", "u8", "u9", "u10",
                "u11", "u12", "u13", "u14", "u15", "u16", "u17", "u18" >>

FirstUnused(names, used) ==
    names[CHOOSE i \in 1..Len(names) :
              /\ names[i] \notin used
              /\ \A j \in 1..(i - 1) : names[j] \in used]

Uuid(used) == FirstUnused(UuidNames, used)

\* The tokens of the ids of a message list.
IdTokens(msgs) ==
    UNION { Range(msgs[i].id[1]) : i \in { j \in 1..Len(msgs) : msgs[j].id # Undefined } }

\* The ids of the tool calls of a message list.
CallIds(msgs) == UNION { Range(msgs[i].tool_calls) : i \in 1..Len(msgs) }

HumanMessage(id, content) ==
    [ id |-> Some(id), type |-> "human", content |-> content,
      tool_calls |-> << >>, tool_call_id |-> Undefined ]

AiMessage(optId, calls) ==
    [ id |-> optId, type |-> "ai", content |-> << "ok" >>,
      tool_calls |-> calls, tool_call_id |-> Undefined ]

ToolMessage(optId, call) ==
    [ id |-> optId, type |-> "tool", content |-> << "result" >>,
      tool_calls |-> << >>, tool_call_id |-> Some(call) ]

\* The reserved prefix of ids of messages that are not rendered.
DO_NOT_RENDER_ID_PREFIX == << "do-not-render-" >>

\* A tool call has a response in a list: a tool message that names it.
HasResponse(msgs, call) ==
    \E i \in 1..Len(msgs) : msgs[i].type = "tool" /\ msgs[i].tool_call_id = Some(call)

PlaceholderResponse(call, uuid) ==
    [ id |-> Some(DO_NOT_RENDER_ID_PREFIX \o << uuid >>), type |-> "tool",
      content |-> << "Successfully handled tool call." >>,
      tool_calls |-> << >>, tool_call_id |-> Some(call) ]

RECURSIVE Placeholders(_, _)
Placeholders(calls, used) ==
    IF calls = << >> THEN << >>
    ELSE LET u == Uuid(used)
         IN  << PlaceholderResponse(calls[1], u) >> \o Placeholders(Tail(calls), used \cup {u})

RECURSIVE EnsureFrom(_, _, _, _)
EnsureFrom(all, i, used, out) ==
    IF i > Len(all) THEN out
    ELSE LET m       == all[i]
             pending == IF m.type = "ai"
                        THEN SelectSeq(m.tool_calls, LAMBDA c : ~HasResponse(all, c))
                        ELSE << >>
             ph      == Placeholders(pending, used)
         IN  EnsureFrom(all, i + 1, used \cup IdTokens(ph), (out \o << m >>) \o ph)

\* The tool-call reconciliation helper: the message list with a placeholder response
\* inserted after every assistant message for each of its tool calls that has none.
\* `used` are the uuids the caller has drawn already.
ensureToolCallsHaveResponses(msgs, used) ==
    EnsureFrom(msgs, 1, used \cup IdTokens(msgs), << >>)

----
\* The visualization tool's options and the tool catalog.

DecimalNames == << "1", "2", "3", "4", "5", "6", "7", "8", "9", "10", "11", "12" >>

\* String(i)
String(i) == DecimalNames[i]

modelOptions == << "gpt2", "bert-base-uncased", "llama-7b" >>

layerOptions == [ i \in 1..12 |-> String(i) ]

headOptions == [ i \in 1..12 |-> String(i) ]

availableTools == << "llm-visualization", "token-analyzer", "prompt-explorer" >>

\* A property of an object in JSON.stringify: one whose value is undefined is left out.
JSONProperty(key, o) ==
    IF o = Undefined THEN << >> ELSE << ",\"", key, "\":\"", o[1], "\"" >>

\* JSON.stringify({tool: "llm_visualization", model, layer, head, text})
JSONStringify(model, layer, head, text) ==
    << "{\"tool\":\"llm_visualization\"" >>
        \o JSONProperty("model", model)
        \o JSONProperty("layer", layer)
        \o JSONProperty("head", head)
        \o << ",\"text\":\"" >> \o text \o << "\"}" >>

----
\* The transcript.

\* The filter with includes() for startsWith()
RenderedTranscript_Includes(msgs) ==
    SelectSeq(msgs, LAMBDA m :
        ~(m.id # Undefined /\ Includes(m.id[1], DO_NOT_RENDER_ID_PREFIX)))

\* messages.filter((m) => !m.id?.startsWith(DO_NOT_RENDER_ID_PREFIX))
RenderedTranscript(msgs) ==
    SelectSeq(msgs, LAMBDA m :
        ~(m.id # Undefined /\ StartsWith(m.id[1], DO_NOT_RENDER_ID_PREFIX)))

\* const chatStarted = !!threadId || !!messages.length
chatStarted == ~Falsy(threadId) \/ Len(messages) # 0

\* {isLoading && !firstTokenReceived && chatStarted && <AssistantMessageLoading />}
LoadingPlaceholderShown == isLoading /\ ~firstTokenReceived /\ chatStarted

----
\* The state after the Thread view has mounted on a fresh URL.

Init ==
    /\ input = << >>
    /\ firstTokenReceived = FALSE
    /\ llmVizModel = (IF Len(modelOptions) > 0 THEN Some(modelOptions[1]) ELSE Undefined)
    /\ llmVizLayer = (IF Len(layerOptions) > 0 THEN Some(layerOptions[1]) ELSE Undefined)
    /\ llmVizHead = (IF Len(headOptions) > 0 THEN Some(headOptions[1]) ELSE Undefined)
    /\ llmVizControlText = << "The", " ", "quick", " ", "brown", " ", "fox." >>
    /\ selectedToolId = Undefined
    /\ threadId = Undefined
    /\ messages = << >>
    /\ isLoading = FALSE
    /\ error = Undefined
    /\ lastError = Undefined
    /\ prevMessageLength = 0
    /\ rendered = << >>
    /\ submitted = Undefined
    /\ toast = "none"
    /\ lastOp = "mount"

----
\* Pieces of the handlers and effects.

vizFields == << llmVizModel, llmVizLayer, llmVizHead, llmVizControlText >>

LLM_VIZ == "llm-visualization"

\* The step raises no notification and does not call stream.submit.
Quiet(op) ==
    /\ lastOp' = op
    /\ toast' = "none"
    /\ submitted' = Undefined

\* The first-token effect without its test of the last message's type
FirstTokenAfter_AnyMessage(msgs, prev, flag) ==
    IF /\ Len(msgs) # prev
       /\ Len(msgs) # 0
    THEN TRUE
    ELSE flag

\* The first-token effect testing the first message's type in place of the last's
FirstTokenAfter_FirstMessage(msgs, prev, flag) ==
    IF /\ Len(msgs) # prev
       /\ Len(msgs) # 0
       /\ msgs[1].type = "ai"
    THEN TRUE
    ELSE flag

\* The first-token effect, run with the ref holding `prev` and the flag being `flag`:
\* the value of the flag after it.
FirstTokenAfter(msgs, prev, flag) ==
    IF /\ Len(msgs) # prev
       /\ Len(msgs) # 0
       /\ msgs[Len(msgs)].type = "ai"
    THEN TRUE
    ELSE flag

\* The stream replaces its message list; the view renders it and the first-token
\* effect runs.
MessagesChange(msgs, prev, flag) ==
    /\ messages' = msgs
    /\ rendered' = RenderedTranscript(msgs)
    /\ firstTokenReceived' = FirstTokenAfter(msgs, prev, flag)
    /\ prevMessageLength' = Len(msgs)

\* stream.submit(values, {checkpoint, optimisticValues}): the stream starts loading
\* and applies the optimistic projection to its values at once.
StreamSubmit(values, checkpoint, optimistic, prev, flag) ==
    /\ submitted' = Some([ values |-> values, checkpoint |-> checkpoint ])
    /\ isLoading' = TRUE
    /\ MessagesChange(optimistic, prev, flag)

\* The guard without trim(): if (!input || isLoading) return
ComposerRejects_NoTrim(text, loading) == EmptyString(text) \/ loading

\* The guard without the loading flag: if (!input.trim()) return
ComposerRejects_IgnoresLoading(text, loading) == EmptyString(Trim(text))

\* handleSubmit's guard: if (!input.trim() || isLoading) return
ComposerRejects(text, loading) == EmptyString(Trim(text)) \/ loading

\* The validation without the head
ControlFieldsMissing_NoHead(model, layer, head, text) ==
    \/ Falsy(model)
    \/ Falsy(layer)
    \/ EmptyString(Trim(text))

\* handleControlSubmit's validation
ControlFieldsMissing(model, layer, head, text) ==
    \/ Falsy(model)
    \/ Falsy(layer)
    \/ Falsy(head)
    \/ EmptyString(Trim(text))

\* { messages: [newHumanMessage, ...toolMessages] }
SubmitValues_HumanFirst(toolMessages, newHumanMessage) == << newHumanMessage >> \o toolMessages

\* { messages: [...toolMessages, newHumanMessage] }
SubmitValues(toolMessages, newHumanMessage) == toolMessages \o << newHumanMessage >>

\* optimisticValues: [...(prev?.messages ?? []), ...toolMessages, newHumanMessage]
OptimisticAppend(prev, toolMessages, newHumanMessage) ==
    (prev \o toolMessages) \o << newHumanMessage >>

\* The error effect: does it raise a notification for the error `e`, the ref holding `last`
ErrorNotifies(e, last) ==
    /\ e # Undefined
    /\ ~Falsy(e[1].message)
    /\ last # e[1].message

\* The effect without the reset of the ref when the error is absent
LastErrorAfter_NoReset(e, last) ==
    IF e = Undefined THEN last
    ELSE IF Falsy(e[1].message) \/ last = e[1].message THEN last
    ELSE e[1].message

\* The error effect: the value of the ref after it.
LastErrorAfter(e, last) ==
    IF e = Undefined THEN Undefined
    ELSE IF Falsy(e[1].message) \/ last = e[1].message THEN last
    ELSE e[1].message

----
\* The composer.

\* onChange of the composer's textarea
SetInput(v) ==
    /\ input' = v
    /\ Quiet("setInput")
    /\ UNCHANGED << firstTokenReceived, vizFields, selectedToolId, threadId, messages,
                    isLoading, error, lastError, prevMessageLength, rendered >>

\* Thread.handleSubmit up to the call of stream.submit; `cap` bounds the list the
\* model lets the stream hold.
ComposerSubmit(cap) ==
    LET newId           == Uuid(IdTokens(messages))
        newHumanMessage == HumanMessage(<< newId >>, input)
        toolMessages    == ensureToolCallsHaveResponses(messages, {newId})
        optimistic      == OptimisticAppend(messages, toolMessages, newHumanMessage)
    IN  /\ lastOp' = "handleSubmit"
        /\ toast' = "none"
        /\ IF ComposerRejects(input, isLoading)
           THEN /\ submitted' = Undefined
                /\ UNCHANGED << firstTokenReceived, messages, isLoading,
                                prevMessageLength, rendered >>
           ELSE /\ Len(optimistic) <= cap
                /\ StreamSubmit(SubmitValues(toolMessages, newHumanMessage), Undefined,
                                optimistic, prevMessageLength, FALSE)

\* handleSubmit without setInput("")
HandleSubmit_KeepsInput(cap) ==
    /\ ComposerSubmit(cap)
    /\ UNCHANGED << input, vizFields, selectedToolId, threadId, error, lastError >>

\* Thread.handleSubmit (the form's onSubmit and Enter in the textarea): after the
\* call of stream.submit, setInput("").
HandleSubmit(cap) ==
    /\ ComposerSubmit(cap)
    /\ input' = (IF submitted' = Undefined THEN input ELSE << >>)
    /\ UNCHANGED << vizFields, selectedToolId, threadId, error, lastError >>

----
\* The visualization tool; it is mounted while it is the selected tool. The module
\* src/components/thread/tools/llm-visualizer.tsx holds the same component, line for
\* line; the Thread view renders the one of its own file.

SetSelectedModel(v) ==
    /\ selectedToolId = Some(LLM_VIZ)
    /\ llmVizModel' = v
    /\ Quiet("setSelectedModel")
    /\ UNCHANGED << input, firstTokenReceived, llmVizLayer, llmVizHead, llmVizControlText,
                    selectedToolId, threadId, messages, isLoading, error, lastError,
                    prevMessageLength, rendered >>

SetSelectedLayer(v) ==
    /\ selectedToolId = Some(LLM_VIZ)
    /\ llmVizLayer' = v
    /\ Quiet("setSelectedLayer")
    /\ UNCHANGED << input, firstTokenReceived, llmVizModel, llmVizHead, llmVizControlText,
                    selectedToolId, threadId, messages, isLoading, error, lastError,
                    prevMessageLength, rendered >>

SetSelectedHead(v) ==
    /\ selectedToolId = Some(LLM_VIZ)
    /\ llmVizHead' = v
    /\ Quiet("setSelectedHead")
    /\ UNCHANGED << input, firstTokenReceived, llmVizModel, llmVizLayer, llmVizControlText,
                    selectedToolId, threadId, messages, isLoading, error, lastError,
                    prevMessageLength, rendered >>

SetControlText(v) ==
    /\ selectedToolId = Some(LLM_VIZ)
    /\ llmVizControlText' = v
    /\ Quiet("setControlText")
    /\ UNCHANGED << input, firstTokenReceived, llmVizModel, llmVizLayer, llmVizHead,
                    selectedToolId, threadId, messages, isLoading, error, lastError,
                    prevMessageLength, rendered >>

\* LLMVizTool.handleControlSubmit: what it does to the stream, the first-token flag
\* and the notifications; `cap` as for ComposerSubmit.
ControlSubmit(cap) ==
    LET messageContent  == JSONStringify(llmVizModel, llmVizLayer, llmVizHead,
                                         llmVizControlText)
        newId           == Uuid(IdTokens(messages))
        newHumanMessage == HumanMessage(<< newId >>, messageContent)
        toolMessages    == ensureToolCallsHaveResponses(messages, {newId})
        optimistic      == OptimisticAppend(messages, toolMessages, newHumanMessage)
    IN  /\ selectedToolId = Some(LLM_VIZ)
        /\ lastOp' = "handleControlSubmit"
        /\ IF isLoading
           THEN /\ toast' = "none"
                /\ submitted' = Undefined
                /\ UNCHANGED << firstTokenReceived, messages, isLoading,
                                prevMessageLength, rendered >>
           ELSE IF ControlFieldsMissing(llmVizModel, llmVizLayer, llmVizHead,
                                        llmVizControlText)
           THEN /\ firstTokenReceived' = FALSE
                /\ toast' = "validation"
                /\ submitted' = Undefined
                /\ UNCHANGED << messages, isLoading, prevMessageLength, rendered >>
           ELSE /\ Len(optimistic) <= cap
                /\ toast' = "none"
                /\ StreamSubmit(SubmitValues(toolMessages, newHumanMessage), Undefined,
                                optimistic, prevMessageLength, FALSE)

\* handleControlSubmit clearing the text after a submission: setControlText("")
HandleControlSubmit_ClearsText(cap) ==
    /\ ControlSubmit(cap)
    /\ llmVizControlText' = (IF submitted' = Undefined THEN llmVizControlText ELSE << >>)
    /\ UNCHANGED << input, llmVizModel, llmVizLayer, llmVizHead, selectedToolId, threadId,
                    error, lastError >>

\* LLMVizTool.handleControlSubmit: it calls no setter of the lifted fields.
HandleControlSubmit(cap) ==
    /\ ControlSubmit(cap)
    /\ UNCHANGED << input, vizFields, selectedToolId, threadId, error, lastError >>

----
\* The tools panel.

\* availableTools.find(tool => tool.id === selectedToolId): the place of the first
\* entry with the selected id, if there is one
SelectedToolDefinition ==
    LET found == { i \in 1..Len(availableTools) : Some(availableTools[i]) = selectedToolId }
    IN  IF found = {} THEN Undefined ELSE Some(CHOOSE i \in found : \A j \in found : i <= j)

\* The panel shows "Error: Tool component not found."
FallbackRendered == ~Falsy(selectedToolId) /\ SelectedToolDefinition = Undefined

\* A button of the catalog, were the catalog shown beside the selected tool
SelectTool_FromAnyView(id) ==
    /\ selectedToolId' = Some(id)
    /\ Quiet("selectTool")
    /\ UNCHANGED << input, firstTokenReceived, vizFields, threadId, messages, isLoading,
                    error, lastError, prevMessageLength, rendered >>

\* A button of the catalog, shown while no tool is selected.
SelectTool(id) ==
    /\ Falsy(selectedToolId)
    /\ selectedToolId' = Some(id)
    /\ Quiet("selectTool")
    /\ UNCHANGED << input, firstTokenReceived, vizFields, threadId, messages, isLoading,
                    error, lastError, prevMessageLength, rendered >>

\* The back button, were the text the tool's own state: unmounting the tool loses it
Back_LosesControlText ==
    /\ ~Falsy(selectedToolId)
    /\ selectedToolId' = Undefined
    /\ llmVizControlText' = << "The", " ", "quick", " ", "brown", " ", "fox." >>
    /\ Quiet("back")
    /\ UNCHANGED << input, firstTokenReceived, llmVizModel, llmVizLayer, llmVizHead,
                    threadId, messages, isLoading, error, lastError, prevMessageLength,
                    rendered >>

\* The back button, shown while a tool is selected.
Back ==
    /\ ~Falsy(selectedToolId)
    /\ selectedToolId' = Undefined
    /\ Quiet("back")
    /\ UNCHANGED << input, firstTokenReceived, vizFields, threadId, messages, isLoading,
                    error, lastError, prevMessageLength, rendered >>

----
\* Regeneration, the thread buttons and the Cancel button.

\* messages.findIndex in its place: the first assistant message
LastAiIndex_First(msgs) ==
    LET ai == { i \in 1..Len(msgs) : msgs[i].type = "ai" }
    IN  IF ai = {} THEN 0 ELSE CHOOSE i \in ai : \A j \in ai : i <= j

\* messages.findLastIndex(m => m.type === 'ai'), counted from 1; 0 when there is none
LastAiIndex(msgs) ==
    LET ai == { i \in 1..Len(msgs) : msgs[i].type = "ai" }
    IN  IF ai = {} THEN 0 ELSE CHOOSE i \in ai : \A j \in ai : j <= i

\* Math.max(0, n - 1)
DecrementToZero(n) == IF n > 0 THEN n - 1 ELSE 0

\* Thread.handleRegenerate, called by an assistant message with its parent checkpoint
HandleRegenerate(parentCheckpoint) ==
    LET lastAiMessageIndex == LastAiIndex(messages)
    IN  /\ lastOp' = "handleRegenerate"
        /\ toast' = "none"
        /\ IF Len(messages) = 0 \/ lastAiMessageIndex = 0
           THEN /\ submitted' = Undefined
                /\ UNCHANGED << firstTokenReceived, messages, isLoading,
                                prevMessageLength, rendered >>
           ELSE StreamSubmit(Undefined, parentCheckpoint,
                             SubSeq(messages, 1, lastAiMessageIndex - 1),
                             DecrementToZero(prevMessageLength), FALSE)
        /\ UNCHANGED << input, vizFields, selectedToolId, threadId, error, lastError >>

\* The thread buttons, were they to reset the view: setInput(""),
\* setFirstTokenReceived(false), setSelectedToolId(null)
NewThread_ResetsView ==
    /\ chatStarted
    /\ threadId' = Undefined
    /\ input' = << >>
    /\ firstTokenReceived' = FALSE
    /\ selectedToolId' = Undefined
    /\ Quiet("newThread")
    /\ UNCHANGED << vizFields, messages, isLoading, error, lastError, prevMessageLength,
                    rendered >>

\* The logo button and the "New thread" button of the chat header: setThreadId(null)
NewThread ==
    /\ chatStarted
    /\ threadId' = Undefined
    /\ Quiet("newThread")
    /\ UNCHANGED << input, firstTokenReceived, vizFields, selectedToolId, messages,
                    isLoading, error, lastError, prevMessageLength, rendered >>

\* The Cancel button, shown while loading: stream.stop()
Stop ==
    /\ isLoading
    /\ isLoading' = FALSE
    /\ Quiet("stop")
    /\ UNCHANGED << input, firstTokenReceived, vizFields, selectedToolId, threadId,
                    messages, error, lastError, prevMessageLength, rendered >>

----
\* The stream: what the provider and the backend do to the fields the view reads.

MsgNames == << "m1", "m2", "m3", "m4", "m5", "m6", "m7", "m8", "m9", "m10" >>

CallNames == << "c1", "c2", "c3", "c4", "c5", "c6", "c7", "c8", "c9", "c10" >>

\* The calls of a list that have no response in it.
PendingCalls(msgs) == { c \in CallIds(msgs) : ~HasResponse(msgs, c) }

\* The messages the backend may append to a list: an assistant message without or
\* with a tool call, or the response to a pending tool call.
Appendable(msgs, kind) ==
    LET id == Some(<< FirstUnused(MsgNames, IdTokens(msgs)) >>)
    IN  CASE kind = "ai"    -> { AiMessage(id, << >>) }
          [] kind = "ai_tc" -> { AiMessage(id, << FirstUnused(CallNames, CallIds(msgs)) >>) }
          [] kind = "tool"  -> { ToolMessage(id, c) : c \in PendingCalls(msgs) }

\* While loading, the backend's next values hold one more message.
StreamAppend(kind, cap) ==
    /\ isLoading
    /\ Len(messages) < cap
    /\ \E m \in Appendable(messages, kind) :
           MessagesChange(Append(messages, m), prevMessageLength, firstTokenReceived)
    /\ Quiet("streamAppend")
    /\ UNCHANGED << input, vizFields, selectedToolId, threadId, isLoading, error, lastError >>

\* The stream's values become a whole other list (a thread's history is loaded).
StreamValues(msgs) ==
    /\ msgs # messages
    /\ MessagesChange(msgs, prevMessageLength, firstTokenReceived)
    /\ Quiet("streamValues")
    /\ UNCHANGED << input, vizFields, selectedToolId, threadId, isLoading, error, lastError >>

\* The run ends.
StreamDone ==
    /\ isLoading
    /\ isLoading' = FALSE
    /\ Quiet("streamDone")
    /\ UNCHANGED << input, firstTokenReceived, vizFields, selectedToolId, threadId,
                    messages, error, lastError, prevMessageLength, rendered >>

\* A run on no thread creates one.
ThreadCreated ==
    /\ isLoading
    /\ Falsy(threadId)
    /\ threadId' = Some("t1")
    /\ Quiet("threadCreated")
    /\ UNCHANGED << input, firstTokenReceived, vizFields, selectedToolId, messages,
                    isLoading, error, lastError, prevMessageLength, rendered >>

\* With no thread id the stream holds a new, empty thread: the provider's answer to
\* setThreadId(null).
ThreadReset ==
    /\ Falsy(threadId)
    /\ lastOp = "newThread"
    /\ isLoading' = FALSE
    /\ MessagesChange(<< >>, prevMessageLength, firstTokenReceived)
    /\ Quiet("threadReset")
    /\ UNCHANGED << input, vizFields, selectedToolId, threadId, error, lastError >>

\* stream.error takes a value; the error effect runs.
StreamError(e) ==
    /\ error' = e
    /\ lastError' = LastErrorAfter(e, lastError)
    /\ toast' = (IF ErrorNotifies(e, lastError) THEN "stream_error" ELSE "none")
    /\ submitted' = Undefined
    /\ lastOp' = "streamError"
    /\ UNCHANGED << input, firstTokenReceived, vizFields, selectedToolId, threadId,
                    messages, isLoading, prevMessageLength, rendered >>

----
\* Inputs.

InputTexts == { << >>, << " ", "\n" >>, << " ", "hi" >> }

ModelInputs == { Undefined, Some(modelOptions[3]) }

LayerInputs == { Undefined, Some(layerOptions[1]) }

HeadInputs == { Undefined, Some(headOptions[1]) }

ControlTexts == { << " ", "\n" >>, << "The", " ", "quick", " ", "brown", " ", "fox." >> }

Checkpoints == { Undefined, Some("cp1") }

ErrorValues ==
    { Undefined,
      Some([ message |-> Some("E1") ]),
      Some([ message |-> Some("E2") ]),
      Some([ message |-> Some("") ]),
      Some([ message |-> Undefined ]) }

----
\* Spec: the view with its forms, the tools panel and short message lists.

Next ==
    \/ \E v \in InputTexts : SetInput(v)
    \/ HandleSubmit(MaxFormMsgs)
    \/ \E v \in ModelInputs : SetSelectedModel(v)
    \/ \E v \in LayerInputs : SetSelectedLayer(v)
    \/ \E v \in HeadInputs : SetSelectedHead(v)
    \/ \E v \in ControlTexts : SetControlText(v)
    \/ HandleControlSubmit(MaxFormMsgs)
    \/ \E id \in Range(availableTools) : SelectTool(id)
    \/ Back
    \/ HandleRegenerate(Undefined)
    \/ NewThread
    \/ Stop
    \/ StreamAppend("ai", MaxFormMsgs)
    \/ StreamDone
    \/ ThreadCreated
    \/ ThreadReset

Spec == Init /\ [][Next]_vars

----
\* SpecMsgs: the message flow. The forms keep one valid content each; the backend
\* appends assistant messages, tool calls and tool responses, and lists grow to MaxMsgs.

MsgNext ==
    \/ \E v \in { << >>, << " ", "hi" >> } : SetInput(v)
    \/ HandleSubmit(MaxMsgs)
    \/ SelectTool(LLM_VIZ)
    \/ HandleControlSubmit(MaxMsgs)
    \/ \E cp \in Checkpoints : HandleRegenerate(cp)
    \/ \E kind \in { "ai", "ai_tc", "tool" } : StreamAppend(kind, MaxMsgs)
    \/ StreamDone
    \/ ThreadCreated
    \/ NewThread
    \/ ThreadReset

SpecMsgs == Init /\ [][MsgNext]_vars

----
\* SpecError: the values of stream.error, interleaved with composer submissions.

ErrorNext ==
    \/ \E e \in ErrorValues : StreamError(e)
    \/ \E v \in InputTexts : SetInput(v)
    \/ HandleSubmit(MaxFormMsgs)
    \/ StreamAppend("ai", MaxFormMsgs)
    \/ StreamDone

SpecError == Init /\ [][ErrorNext]_vars

----
\* SpecRender: the transcript of the lists a thread's history may hold.

RenderPool ==
    { AiMessage(Some(DO_NOT_RENDER_ID_PREFIX \o << "x" >>), << >>),
      HumanMessage(<< "m1" >>, << "hi" >>),
      AiMessage(Undefined, << >>),
      AiMessage(Some(<< "m2", "do-not-render-" >>), << "c1" >>),
      PlaceholderResponse("c1", "u1") }

RenderLists == UNION { [ 1..n -> RenderPool ] : n \in 0..MaxRenderLen }

RenderNext == \E msgs \in RenderLists : StreamValues(msgs)

SpecRender == Init /\ [][RenderNext]_vars

----
\* Properties.

\* A text is empty or holds whitespace only.
IsBlank(text) == \A i \in 1..Len(text) : IsWhitespace(text[i])

\* stream.submit was called in the last step.
SubmitCalled == submitted # Undefined

SubmitHandlers == { "handleSubmit", "handleControlSubmit" }

Handlers == SubmitHandlers \cup { "handleRegenerate" }

\* One of model, layer and head is unset.
AnyVizFieldUnset ==
    \/ llmVizModel \in { Undefined, Some("") }
    \/ llmVizLayer \in { Undefined, Some("") }
    \/ llmVizHead \in { Undefined, Some("") }

\* C1: a step of handleSubmit taken with a blank input, and a step of
\* handleControlSubmit taken with a blank control text, does not call stream.submit.
C1_BlankNeverSubmits ==
    [][ /\ (lastOp' = "handleSubmit" /\ IsBlank(input)) => submitted' = Undefined
        /\ (lastOp' = "handleControlSubmit" /\ IsBlank(llmVizControlText))
               => submitted' = Undefined ]_vars

\* C1: handleSubmit has just rejected a whitespace-only input while not loading.
C1_Witness ==
    /\ lastOp = "handleSubmit"
    /\ input # << >>
    /\ IsBlank(input)
    /\ ~isLoading
    /\ ~SubmitCalled

\* C2 as stated: a step of handleControlSubmit taken with model, layer or head unset
\* calls no stream.submit and raises the validation notification, loading or not.
C2_UnsetAlwaysNotifies ==
    [][ (lastOp' = "handleControlSubmit" /\ AnyVizFieldUnset)
            => (submitted' = Undefined /\ toast' = "validation") ]_vars

\* C2 as amended: such a step never calls stream.submit, and it raises the validation
\* notification exactly when the stream is not loading.
C2_UnsetNotifiesUnlessLoading ==
    [][ (lastOp' = "handleControlSubmit" /\ AnyVizFieldUnset)
            => /\ submitted' = Undefined
               /\ (toast' = "validation") <=> ~isLoading ]_vars

\* C2: handleControlSubmit has just rejected a form with an unset field and notified.
C2_Witness ==
    /\ lastOp = "handleControlSubmit"
    /\ AnyVizFieldUnset
    /\ ~IsBlank(llmVizControlText)
    /\ toast = "validation"
    /\ ~SubmitCalled

\* C3: while loading, a step of handleSubmit or handleControlSubmit calls no
\* stream.submit and leaves the stream alone; no step other than a handler's calls
\* stream.submit; and what an accepting step submits is made of the form as it is in
\* that step, so nothing of a rejected submission is sent later.
C3_LoadingRejectsWithoutQueue ==
    [][ /\ (isLoading /\ lastOp' \in SubmitHandlers)
               => (submitted' = Undefined /\ messages' = messages /\ isLoading')
        /\ (lastOp' \notin Handlers) => submitted' = Undefined
        /\ (lastOp' \in SubmitHandlers /\ submitted' # Undefined)
               => LET values == submitted'[1].values
                  IN  /\ ~isLoading
                      /\ values[Len(values)].content =
                             (IF lastOp' = "handleSubmit"
                              THEN input
                              ELSE JSONStringify(llmVizModel, llmVizLayer, llmVizHead,
                                                 llmVizControlText)) ]_vars

\* C3: handleSubmit has just rejected a non-blank input because the stream is loading.
C3_Witness ==
    /\ lastOp = "handleSubmit"
    /\ ~IsBlank(input)
    /\ isLoading
    /\ ~SubmitCalled

\* Every tool call of a list has a response in it.
EveryCallAnswered(msgs) ==
    \A i \in 1..Len(msgs) :
        \A k \in 1..Len(msgs[i].tool_calls) :
            \E j \in 1..Len(msgs) :
                /\ msgs[j].type = "tool"
                /\ msgs[j].tool_call_id = << msgs[i].tool_calls[k] >>

\* C4: the list an accepting handleSubmit or handleControlSubmit hands to
\* stream.submit has a response for every tool call and ends with the human message
\* the handler has created: one whose id no earlier message of the list has.
C4_SubmittedListReconciled ==
    (lastOp \in SubmitHandlers /\ SubmitCalled)
        => LET values == submitted[1].values
               n      == Len(values)
           IN  /\ EveryCallAnswered(values)
               /\ n > 0
               /\ values[n].type = "human"
               /\ \A i \in 1..(n - 1) : values[i].id # values[n].id
               /\ values[n] = messages[Len(messages)]

\* C4: a submission has just been accepted on a list that held an unanswered tool call.
C4_Witness ==
    /\ lastOp \in SubmitHandlers
    /\ SubmitCalled
    /\ \E i \in 1..Len(submitted[1].values) :
           LET m == submitted[1].values[i]
           IN  /\ m.type = "tool"
               /\ StartsWith(m.id[1], DO_NOT_RENDER_ID_PREFIX)
    /\ \E i \in 1..Len(submitted[1].values) :
           submitted[1].values[i].tool_calls # << >>

\* The error carries a non-empty message.
HasMessage(e) ==
    /\ e # Undefined
    /\ e[1].message # Undefined
    /\ e[1].message # Some("")

\* C5: at an update of stream.error a notification is raised exactly when the error
\* carries a non-empty message other than the last shown one (lastError), which is
\* forgotten when the error is absent and replaced when a notification is raised.
\* Hence: the same message twice in a row notifies once, another message notifies
\* again, and a message after an absent error notifies.
C5_ErrorNotifiedOncePerMessage ==
    [][ lastOp' = "streamError"
            => /\ (toast' = "stream_error")
                      <=> (HasMessage(error') /\ error'[1].message # lastError)
               /\ lastError' = (IF error' = Undefined THEN Undefined
                                ELSE IF toast' = "stream_error" THEN error'[1].message
                                ELSE lastError)
               /\ (HasMessage(error) /\ HasMessage(error')
                       /\ error'[1].message = error[1].message) => toast' = "none"
               /\ (HasMessage(error) /\ HasMessage(error')
                       /\ error'[1].message # error[1].message) => toast' = "stream_error"
               /\ (error = Undefined /\ HasMessage(error')) => toast' = "stream_error" ]_vars

\* C5: an error update has just been suppressed: its message was the last shown one.
C5_Witness ==
    /\ lastOp = "streamError"
    /\ HasMessage(error)
    /\ lastError = error[1].message
    /\ toast = "none"

\* C6: a step of handleSubmit taken with a non-blank input while not loading calls
\* stream.submit and leaves the input empty; any other step of handleSubmit leaves
\* the input as it was.
C6_InputClearedOnAcceptOnly ==
    [][ lastOp' = "handleSubmit"
            => IF ~IsBlank(input) /\ ~isLoading
               THEN submitted' # Undefined /\ input' = << >>
               ELSE submitted' = Undefined /\ input' = input ]_vars

\* C6: handleSubmit has just accepted a submission and the input is empty.
C6_Witness ==
    /\ lastOp = "handleSubmit"
    /\ SubmitCalled
    /\ input = << >>
    /\ messages[Len(messages)].content # << >>

\* C7: no step of handleSubmit or handleControlSubmit, accepted or rejected, changes
\* model, layer, head or control text.
C7_SubmissionKeepsVizFields ==
    [][ lastOp' \in SubmitHandlers => vizFields' = vizFields ]_vars

\* C7: handleControlSubmit has just accepted a form whose model had been edited.
C7_Witness ==
    /\ lastOp = "handleControlSubmit"
    /\ SubmitCalled
    /\ llmVizModel = Some("llama-7b")
    /\ ~IsBlank(llmVizControlText)

\* C8: each of the four fields changes only in a step of its own setter, taken while
\* the visualization tool is the selected tool; selecting a tool and going back
\* change none of them.
C8_FieldsChangeOnlyBySetters ==
    [][ /\ llmVizModel' # llmVizModel
               => (lastOp' = "setSelectedModel" /\ selectedToolId = Some(LLM_VIZ))
        /\ llmVizLayer' # llmVizLayer
               => (lastOp' = "setSelectedLayer" /\ selectedToolId = Some(LLM_VIZ))
        /\ llmVizHead' # llmVizHead
               => (lastOp' = "setSelectedHead" /\ selectedToolId = Some(LLM_VIZ))
        /\ llmVizControlText' # llmVizControlText
               => (lastOp' = "setControlText" /\ selectedToolId = Some(LLM_VIZ))
        /\ lastOp' \in { "selectTool", "back" } => vizFields' = vizFields ]_vars

\* C8: the visualization tool has just been selected again and shows edited fields.
C8_Witness ==
    /\ lastOp = "selectTool"
    /\ selectedToolId = Some(LLM_VIZ)
    /\ llmVizModel = Some("llama-7b")
    /\ llmVizHead = Undefined
    /\ IsBlank(llmVizControlText)

\* The id of a message begins with the reserved prefix.
HasReservedPrefix(m) ==
    /\ m.id # Undefined
    /\ Len(m.id[1]) >= Len(DO_NOT_RENDER_ID_PREFIX)
    /\ \A k \in 1..Len(DO_NOT_RENDER_ID_PREFIX) : m.id[1][k] = DO_NOT_RENDER_ID_PREFIX[k]

\* The places of the messages a transcript shows.
Shown(msgs) == { i \in 1..Len(msgs) : ~HasReservedPrefix(msgs[i]) }

\* C9: the rendered transcript holds, in their order, exactly the messages whose id
\* does not begin with the reserved prefix: the k-th of them is the k-th rendered.
C9_TranscriptIsFilteredSubsequence ==
    /\ Len(rendered) = Cardinality(Shown(messages))
    /\ \A i \in Shown(messages) :
           rendered[Cardinality({ j \in Shown(messages) : j <= i })] = messages[i]

\* C9: a rendered list that holds a message with the prefix, one with the prefix
\* inside its id and one with no id.
C9_Witness ==
    /\ \E i \in 1..Len(messages) : HasReservedPrefix(messages[i])
    /\ \E i \in 1..Len(rendered) :
           rendered[i].id # Undefined /\ Includes(rendered[i].id[1], DO_NOT_RENDER_ID_PREFIX)
    /\ \E i \in 1..Len(rendered) : rendered[i].id = Undefined
    /\ Len(rendered) < Len(messages)

\* C10 as stated: a step that rejects a submission by validation (handleSubmit with a
\* blank input, handleControlSubmit with a missing field or a blank text, the stream
\* not loading) raises a notification and changes neither the input, the four fields,
\* the selected tool nor the first-token flag.
C10_RejectionNotifiesAndKeepsState ==
    [][ ( /\ ~isLoading
          /\ \/ lastOp' = "handleSubmit" /\ IsBlank(input)
             \/ lastOp' = "handleControlSubmit"
                    /\ (AnyVizFieldUnset \/ IsBlank(llmVizControlText)) )
            => /\ toast' = "validation"
               /\ input' = input
               /\ vizFields' = vizFields
               /\ selectedToolId' = selectedToolId
               /\ firstTokenReceived' = firstTokenReceived ]_vars

\* C10, the visualization tool alone: its rejected submission keeps the first-token flag.
C10_VizRejectionKeepsFlag ==
    [][ ( /\ ~isLoading
          /\ lastOp' = "handleControlSubmit"
          /\ (AnyVizFieldUnset \/ IsBlank(llmVizControlText)) )
            => firstTokenReceived' = firstTokenReceived ]_vars


\* C11 as stated: the step of the thread buttons, and every accepting step of
\* handleSubmit or handleControlSubmit, leaves the input empty, the first-token flag
\* false and no tool selected.
C11_ViewResetOnThreadChangeAndSubmit ==
    [][ (\/ lastOp' = "newThread"
         \/ lastOp' \in SubmitHandlers /\ submitted' # Undefined)
            => /\ input' = << >>
               /\ ~firstTokenReceived'
               /\ selectedToolId' = Undefined ]_vars

\* C11 as amended: the step of the thread buttons sets the thread id to null and keeps
\* the input, the first-token flag and the selected tool; an accepting handleSubmit
\* leaves the input empty and the flag false and keeps the selected tool; an accepting
\* handleControlSubmit leaves the flag false and keeps the input and the selected tool.
C11_OnlySubmitResetsInputAndFlag ==
    [][ /\ lastOp' = "newThread"
               => /\ threadId' = Undefined
                  /\ input' = input
                  /\ firstTokenReceived' = firstTokenReceived
                  /\ selectedToolId' = selectedToolId
        /\ (lastOp' = "handleSubmit" /\ submitted' # Undefined)
               => /\ input' = << >>
                  /\ ~firstTokenReceived'
                  /\ selectedToolId' = selectedToolId
        /\ (lastOp' = "handleControlSubmit" /\ submitted' # Undefined)
               => /\ input' = input
                  /\ ~firstTokenReceived'
                  /\ selectedToolId' = selectedToolId ]_vars

\* C11: "New thread" has just been pressed with a typed input, a received first token
\* and a selected tool, and all three are still there.
C11_Witness ==
    /\ lastOp = "newThread"
    /\ threadId = Undefined
    /\ ~IsBlank(input)
    /\ firstTokenReceived
    /\ selectedToolId # Undefined

\* C12: the selected tool id is null or the id of exactly one entry of the catalog,
\* so the fallback is never rendered; a step that selects a tool starts with no tool
\* selected and ends with an id of the catalog, and the back step ends with null.
C12_SelectedToolIsOfCatalog ==
    /\ [](/\ \/ selectedToolId = Undefined
             \/ Cardinality({ i \in 1..Len(availableTools) :
                                  << availableTools[i] >> = selectedToolId }) = 1
          /\ ~FallbackRendered)
    /\ [][ /\ lastOp' = "selectTool"
                  => /\ selectedToolId = Undefined
                     /\ \E i \in 1..Len(availableTools) :
                            selectedToolId' = << availableTools[i] >>
           /\ lastOp' = "back" => selectedToolId' = Undefined
           /\ selectedToolId' # selectedToolId => lastOp' \in { "selectTool", "back" } ]_vars

\* C12: a placeholder tool of the catalog has just been selected.
C12_Witness ==
    /\ lastOp = "selectTool"
    /\ selectedToolId = Some("prompt-explorer")
    /\ SelectedToolDefinition = Some(3)


\* The message list holds no assistant message (an empty list holds none).
NoAssistantMessage(msgs) == \A i \in 1..Len(msgs) : msgs[i].type # "ai"

\* `shorter` is the prefix of `msgs` that ends just before its last assistant message.
IsPrefixBeforeLastAi(shorter, msgs) ==
    \E k \in 1..Len(msgs) :
        /\ msgs[k].type = "ai"
        /\ \A j \in (k + 1)..Len(msgs) : msgs[j].type # "ai"
        /\ Len(shorter) = k - 1
        /\ \A j \in 1..(k - 1) : shorter[j] = msgs[j]

\* C13: a step of handleRegenerate taken with no assistant message in the list calls
\* no stream.submit and keeps the first-token flag, the previous-length counter and
\* the list; any other step of it calls stream.submit with no values and the given
\* checkpoint, the list becomes the prefix before the last assistant message, and the
\* flag is false unless the first-token effect fires on that prefix (length other than
\* the decremented counter, last message an assistant message).
C13_RegenerateTruncatesBeforeLastAi ==
    [][ lastOp' = "handleRegenerate"
            => IF NoAssistantMessage(messages)
               THEN /\ submitted' = Undefined
                    /\ firstTokenReceived' = firstTokenReceived
                    /\ prevMessageLength' = prevMessageLength
                    /\ messages' = messages
                    /\ isLoading' = isLoading
               ELSE /\ submitted' # Undefined
                    /\ submitted'[1].values = Undefined
                    /\ submitted'[1].checkpoint \in Checkpoints
                    /\ IsPrefixBeforeLastAi(messages', messages)
                    /\ isLoading'
                    /\ \/ ~firstTokenReceived'
                       \/ /\ Len(messages') # DecrementToZero(prevMessageLength)
                          /\ Len(messages') # 0
                          /\ messages'[Len(messages')].type = "ai" ]_vars

\* C13: handleRegenerate has just resubmitted from checkpoint "cp1", the list was cut
\* to a non-empty prefix and the flag is false.
C13_Witness ==
    /\ lastOp = "handleRegenerate"
    /\ SubmitCalled
    /\ submitted[1].checkpoint = Some("cp1")
    /\ Len(messages) > 0
    /\ ~firstTokenReceived


\* The last message of the list is an assistant message.
LastIsAssistant(msgs) == Len(msgs) # 0 /\ msgs[Len(msgs)].type = "ai"

\* C14: an accepting step of handleSubmit or handleControlSubmit ends, optimistic
\* update included, with the first-token flag false; the flag goes from false to true
\* only in a step that changes the message list to a length other than the previously
\* observed one and with an assistant message last; and in every state where the flag
\* is false the loading placeholder is shown exactly when the stream is loading and
\* the thread id is present or the list is non-empty.
C14_FlagFalseUntilAssistantMessage ==
    /\ [][ /\ (lastOp' \in SubmitHandlers /\ submitted' # Undefined)
                  => ~firstTokenReceived'
           /\ (~firstTokenReceived /\ firstTokenReceived')
                  => /\ messages' # messages
                     /\ Len(messages') # prevMessageLength
                     /\ Len(messages') # Len(messages)
                     /\ LastIsAssistant(messages') ]_vars
    /\ [](~firstTokenReceived
            => (LoadingPlaceholderShown
                  <=> isLoading /\ (threadId # Undefined \/ messages # << >>)))

\* C14: a submission was just accepted on a list that holds an assistant message; the
\* flag is false and the placeholder is shown.
C14_Witness ==
    /\ lastOp \in SubmitHandlers
    /\ SubmitCalled
    /\ \E i \in 1..Len(messages) : messages[i].type = "ai"
    /\ ~firstTokenReceived
    /\ LoadingPlaceholderShown

\* C15: a step of the stream that appends one message, an assistant message, to the
\* end of the list ends with the first-token flag true and the loading placeholder
\* not shown, whichever handler submitted before and whatever the previous-length
\* counter was left at.
C15_AppendedAssistantSetsFlag ==
    [][ ( /\ lastOp' = "streamAppend"
          /\ Len(messages') = Len(messages) + 1
          /\ LastIsAssistant(messages') )
            => /\ firstTokenReceived'
               /\ ~LoadingPlaceholderShown' ]_vars

\* C15: the stream has just appended an assistant message after a human message that
\* is not the first of the list, and the flag is true.
C15_Witness ==
    /\ lastOp = "streamAppend"
    /\ Len(messages) >= 3
    /\ LastIsAssistant(messages)
    /\ messages[1].type = "human"
    /\ firstTokenReceived
    /\ isLoading


\* C16: an accepting step of handleRegenerate ends, the optimistic truncation applied
\* and the first-token effect run on it, with the first-token flag false; and the flag
\* goes from false to true only in a step of the stream that appends an assistant
\* message.
C16_TruncationKeepsFlagFalse ==
    [][ /\ (lastOp' = "handleRegenerate" /\ submitted' # Undefined)
               => ~firstTokenReceived'
        /\ (~firstTokenReceived /\ firstTokenReceived' /\ lastOp' # "handleRegenerate")
               => Len(messages') > Len(messages) /\ LastIsAssistant(messages') ]_vars

\* C17: a step of handleRegenerate taken while the stream is loading calls no
\* stream.submit.
C17_RegenerateRejectedWhileLoading ==
    [][ (isLoading /\ lastOp' = "handleRegenerate") => submitted' = Undefined ]_vars

\* The number of places of `msgs` that hold the message `m`.
Occurrences(m, msgs) == Cardinality({ j \in 1..Len(msgs) : msgs[j] = m })

\* C18: an accepting step of handleSubmit or handleControlSubmit leaves a list in
\* which every message of the list before occurs exactly once, no id occurs twice,
\* and the new human message is last.
C18_OptimisticListHasNoDuplicates ==
    [][ (lastOp' \in SubmitHandlers /\ submitted' # Undefined)
            => /\ \A i \in 1..Len(messages) : Occurrences(messages[i], messages') = 1
               /\ \A i, j \in 1..Len(messages') :
                      (i # j /\ messages'[i].id # Undefined)
                          => messages'[i].id # messages'[j].id
               /\ Len(messages') > 0
               /\ messages'[Len(messages')].type = "human"
               /\ \A i \in 1..Len(messages) :
                      messages[i].id # messages'[Len(messages')].id ]_vars

====
